---- MODULE Spec2Model ----
(***************************************************************************)
(* Model of backend/services/realtime_data_processor.py: the satellite     *)
(* data cache (SatelliteDataCache: TTL, LRU eviction under a byte budget,  *)
(* one pickle file per entry) and the processor that fronts it             *)
(* (RealTimeDataProcessor.process_satellite_data, clear_cache).            *)
(*                                                                         *)
(* Scheduling.  Every coroutine runs on one asyncio event loop, so a step  *)
(* of the model is the code between two suspension points.  cache.get and  *)
(* clear_cache never suspend; asyncio.Lock.acquire suspends only when the  *)
(* lock is taken or has waiters; cache.put suspends in _persist_to_disk    *)
(* (aiofiles open, then write and close).  threading.RLock is re-entrant   *)
(* for the loop's thread, so `with self.lock` excludes no coroutine.       *)
(*                                                                         *)
(* Units.  Time is in whole seconds.  Coordinates are integers in units    *)
(* of 1e-5 degree, so that formatting with 4 decimals rounds.  Measured    *)
(* and estimated quantities are scaled integers, see the pipeline.         *)
(***************************************************************************)
EXTENDS Integers, Sequences, FiniteSets, TLC

(***************************************************************************)
(* Bounds of the model.                                                    *)
(***************************************************************************)
MaxTime == 3
MaxAccessCount == 2

(***************************************************************************)
(* Configuration of the cache, scaled down so that eviction and expiry     *)
(* happen within the bounds: the program runs with 500 MiB and 6 hours.    *)
(***************************************************************************)
max_size_bytes == 1200
ttl_seconds == 2

Procs == {"p1", "p2"}
Cities == {"NYC"}
Lats == {4071280}
Lons == {-7400600}
Timestamps == {0, 1, 2}
PassTimes == {0}
Noise == {0}
MeasurementSets == {[no2_column |-> 4, o3_column |-> 320]}

None == [none |-> TRUE]

(***************************************************************************)
(* Text formatting used by the cache key.                                  *)
(***************************************************************************)
Digit(d) == <<"0", "1", "2", "3", "4", "5", "6", "7", "8", "9">>[d + 1]

RECURSIVE NatToStr(_)
NatToStr(n) == IF n < 10 THEN Digit(n) ELSE NatToStr(n \div 10) \o Digit(n % 10)

Abs(x) == IF x < 0 THEN -x ELSE x

\* The magnitude of x (1e-5 units) rounded to 1e-4 units, ties to even.
RoundMag4(x) ==
    LET q == Abs(x) \div 10
        r == Abs(x) % 10
    IN  IF r > 5 \/ (r = 5 /\ q % 2 = 1) THEN q + 1 ELSE q

Pad4(n) ==
    Digit((n \div 1000) % 10) \o Digit((n \div 100) % 10)
        \o Digit((n \div 10) % 10) \o Digit(n % 10)

\* f"{x:.4f}": the sign of x is kept even when the magnitude rounds to zero.
Format4f(x) ==
    (IF x < 0 THEN "-" ELSE "")
        \o NatToStr(RoundMag4(x) \div 10000) \o "." \o Pad4(RoundMag4(x) % 10000)

\* round(x, 4) as a number, in 1e-4 units: -0.0 and 0.0 are the same number.
Round4(x) == IF x < 0 THEN -RoundMag4(x) ELSE RoundMag4(x)

\* datetime.isoformat() of second t of the modelled day.
IsoFormat(t) ==
    "2025-01-01T00:00:" \o Digit((t \div 10) % 10) \o Digit(t % 10)

\* hashlib.md5(...).hexdigest(): the digest is kept symbolic, one per text.
Md5(s) == "md5(" \o s \o ")"

_generate_cache_key(city, lat, lon, timestamp) ==
    Md5(city \o "_" \o Format4f(lat) \o "_" \o Format4f(lon) \o "_"
            \o IsoFormat(timestamp))

(***************************************************************************)
(* State.                                                                  *)
(*   now            the wall clock (datetime.now()), in seconds            *)
(*   cache          SatelliteDataCache.cache: key -> CacheEntry            *)
(*   access_order   SatelliteDataCache.access_order, least recent first    *)
(*   current_size   SatelliteDataCache.current_size                        *)
(*   files          cache_dir: key -> content of <key>.pkl; <<>> is a file *)
(*                  of zero bytes, <<e>> the pickle of entry e             *)
(*   locked, waiters  RealTimeDataProcessor.processing_lock (asyncio.Lock) *)
(*   _initialized   RealTimeDataProcessor._initialized                      *)
(*   pc, call, res  each caller's position, arguments and returned value   *)
(*   cleared        history: clear_cache has run and no put has started    *)
(*                  since                                                  *)
(***************************************************************************)
VARIABLES now, cache, access_order, current_size, files,
          locked, waiters, _initialized, pc, call, res, cleared

vars == <<now, cache, access_order, current_size, files,
          locked, waiters, _initialized, pc, call, res, cleared>>

cacheVars == <<cache, access_order, current_size, files>>

\* The cache object as one value, for the operators below.
Self == [cache |-> cache, access_order |-> access_order,
         current_size |-> current_size, files |-> files]

Drop(f, k) == [x \in DOMAIN f \ {k} |-> f[x]]

Store(f, k, v) == [x \in DOMAIN f \cup {k} |-> IF x = k THEN v ELSE f[x]]

Range(s) == {s[i] : i \in DOMAIN s}

\* list.remove(k): the first occurrence only.
RECURSIVE RemoveFirst(_, _)
RemoveFirst(s, k) ==
    IF s = <<>> THEN <<>>
    ELSE IF Head(s) = k THEN Tail(s)
    ELSE <<Head(s)>> \o RemoveFirst(Tail(s), k)

_calculate_entry_size(data) ==
    1024 + Len(data.city) * 2
         + Cardinality(DOMAIN data.measurements) * 8 * 2
         + 4 * 8 * 2
         + 3 * 8 * 2
         + Cardinality(DOMAIN data.quality_flags) * 8 * 2
         + Cardinality(DOMAIN data.metadata) * 8 * 2

\* A variant that drops the evicted entries from memory and leaves their
\* files on disk.
RECURSIVE _evict_lru_memory_only(_)
_evict_lru_memory_only(s) ==
    IF s.current_size > max_size_bytes /\ s.access_order # <<>>
    THEN LET oldest_key == Head(s.access_order)
             popped == [s EXCEPT !.access_order = Tail(@)]
         IN  IF oldest_key \in DOMAIN s.cache
             THEN _evict_lru_memory_only([popped EXCEPT
                      !.current_size = @ - s.cache[oldest_key].file_size_bytes,
                      !.cache = Drop(@, oldest_key)])
             ELSE _evict_lru_memory_only(popped)
    ELSE s

RECURSIVE _evict_lru(_)
_evict_lru(s) ==
    IF s.current_size > max_size_bytes /\ s.access_order # <<>>
    THEN LET oldest_key == Head(s.access_order)
             popped == [s EXCEPT !.access_order = Tail(@)]
         IN  IF oldest_key \in DOMAIN s.cache
             THEN _evict_lru([popped EXCEPT
                      !.current_size = @ - s.cache[oldest_key].file_size_bytes,
                      !.cache = Drop(@, oldest_key),
                      !.files = Drop(@, oldest_key)])
             ELSE _evict_lru(popped)
    ELSE s

\* A variant that leaves a key already in the list where it is, so that the
\* list is in order of insertion.
_update_access_order_insertion(s, cache_key) ==
    [s EXCEPT !.access_order =
        IF cache_key \in Range(@) THEN @ ELSE Append(@, cache_key)]

\* A variant that puts the key at the least-recently-used end of the list.
_update_access_order_front(s, cache_key) ==
    [s EXCEPT !.access_order =
        <<cache_key>> \o (IF cache_key \in Range(@)
                          THEN RemoveFirst(@, cache_key) ELSE @)]

_update_access_order(s, cache_key) ==
    [s EXCEPT !.access_order =
        Append(IF cache_key \in Range(@) THEN RemoveFirst(@, cache_key) ELSE @,
               cache_key)]

\* A variant that measures the age of an entry against its creation time.
IsExpired_since_creation(t, entry) == t > entry.created_at

\* get, line 220: the entry is expired only strictly after expires_at.
IsExpired(t, entry) == t > entry.expires_at

\* SatelliteDataCache.get at time t: the value returned and the cache after.
get(s, cache_key, t) ==
    IF cache_key \notin DOMAIN s.cache
    THEN [value |-> None, state |-> s]
    ELSE LET entry == s.cache[cache_key]
         IN  IF IsExpired(t, entry)
             THEN [value |-> None,
                   state |-> [s EXCEPT
                       !.cache = Drop(@, cache_key),
                       !.access_order = RemoveFirst(@, cache_key),
                       !.current_size = @ - entry.file_size_bytes,
                       !.files = Drop(@, cache_key)]]
             ELSE [value |-> entry.data,
                   state |-> _update_access_order(
                       [s EXCEPT !.cache[cache_key] =
                           [entry EXCEPT !.access_count = @ + 1,
                                         !.last_accessed = t]],
                       cache_key)]

\* put, lines 247-254: the entry created for data at time t.
NewEntry(data, t) ==
    [data |-> data,
     created_at |-> t,
     expires_at |-> t + ttl_seconds,
     access_count |-> 1,
     last_accessed |-> t,
     file_size_bytes |-> _calculate_entry_size(data)]

\* put, lines 256-258: the eviction pass runs when the insert would exceed
\* the budget.
EvictIfNeeded(s, entry_size) ==
    IF s.current_size + entry_size > max_size_bytes THEN _evict_lru(s) ELSE s

\* A variant that inserts the entry first and runs the eviction pass after
\* it, over a list that holds the new key.
put_evict_after(s, data, t) ==
    LET entry == NewEntry(data, t)
        s1 == _update_access_order(
                  [s EXCEPT !.cache = Store(@, data.cache_key, entry),
                            !.current_size = @ + entry.file_size_bytes],
                  data.cache_key)
    IN  _evict_lru(s1)

\* put, lines 242-263: the in-memory part, up to the await of the disk write.
put(s, data, t) ==
    LET entry == NewEntry(data, t)
        s1 == EvictIfNeeded(s, entry.file_size_bytes)
    IN  _update_access_order(
            [s1 EXCEPT !.cache = Store(@, data.cache_key, entry),
                       !.current_size = @ + entry.file_size_bytes],
            data.cache_key)

get_cache_stats(s) ==
    [total_entries |-> Cardinality(DOMAIN s.cache),
     total_size_bytes |-> s.current_size]


(***************************************************************************)
(* The processing pipeline: DataQualityFilter and the two conversions of   *)
(* RealTimeDataProcessor.  A measurements dict maps field names to         *)
(* integers: cloud_fraction and aerosol_optical_depth in hundredths,       *)
(* solar_zenith_angle in degrees, no2_column in tenths, o3_column and      *)
(* hcho_column in units.  Surface estimates are in tenths of ug/m3, the    *)
(* precision round(x, 1) leaves.                                           *)
(***************************************************************************)

\* Python's None as the value of a measurement field.
NoneValue == -1000000

\* dict.get(key, default)
MGet(m, key, default) == IF key \in DOMAIN m THEN m[key] ELSE default

\* DataQualityFilter.quality_thresholds, in the units of the measurements.
quality_thresholds ==
    [cloud_fraction |-> 80, solar_zenith_angle |-> 75,
     no2_column_min |-> 1, no2_column_max |-> 500,
     o3_column_min |-> 100, o3_column_max |-> 800,
     aod_min |-> 0, aod_max |-> 300]

\* DataQualityFilter.quality_weights, in tenths.
quality_weights ==
    [cloud_fraction |-> 3, solar_zenith_angle |-> 2,
     data_completeness |-> 3, temporal_freshness |-> 2]

\* validate_measurements.  Each of the five fields is compared with a
\* number; the comparison of None with a number raises TypeError.
validate_measurements(measurements) ==
    LET cloud_fraction == MGet(measurements, "cloud_fraction", 100)
        sza == MGet(measurements, "solar_zenith_angle", 90)
        no2 == MGet(measurements, "no2_column", 0)
        o3 == MGet(measurements, "o3_column", 0)
        aod == MGet(measurements, "aerosol_optical_depth", 0)
        issues ==
            (IF cloud_fraction > quality_thresholds.cloud_fraction
             THEN <<"High cloud cover">> ELSE <<>>)
         \o (IF sza > quality_thresholds.solar_zenith_angle
             THEN <<"High solar zenith angle">> ELSE <<>>)
         \o (IF ~(quality_thresholds.no2_column_min <= no2
                  /\ no2 <= quality_thresholds.no2_column_max)
             THEN <<"Invalid NO2 column">> ELSE <<>>)
         \o (IF ~(quality_thresholds.o3_column_min <= o3
                  /\ o3 <= quality_thresholds.o3_column_max)
             THEN <<"Invalid O3 column">> ELSE <<>>)
         \o (IF ~(quality_thresholds.aod_min <= aod
                  /\ aod <= quality_thresholds.aod_max)
             THEN <<"Invalid AOD">> ELSE <<>>)
    IN  IF NoneValue \in {cloud_fraction, sza, no2, o3, aod}
        THEN [raised |-> "TypeError", is_valid |-> FALSE, issues |-> <<>>]
        ELSE [raised |-> "", is_valid |-> Len(issues) = 0, issues |-> issues]

Max(a, b) == IF a >= b THEN a ELSE b
Min(a, b) == IF a <= b THEN a ELSE b

\* A variant of the score that adds the four weighted components instead of
\* multiplying them: cloud 1 - cloud_fraction, solar 1 - penalty within
\* [0, 1], completeness, freshness.  In units of 1e-4.
QualityScore_weighted_sum(measurements, satellite_pass_time, t) ==
    LET cloud_fraction == MGet(measurements, "cloud_fraction", 100)
        sza == MGet(measurements, "solar_zenith_angle", 90)
        present == {field \in {"no2_column", "o3_column", "hcho_column",
                               "aerosol_optical_depth"} :
                        /\ field \in DOMAIN measurements
                        /\ measurements[field] # NoneValue}
    IN  (quality_weights.cloud_fraction * 1000 * (100 - cloud_fraction)) \div 100
        + (quality_weights.solar_zenith_angle * 1000
               * Min(45, Max(0, 90 - sza))) \div 45
        + (quality_weights.data_completeness * 1000 * Cardinality(present)) \div 4
        + (quality_weights.temporal_freshness * 1000
               * Max(0, 86400 - (t - satellite_pass_time))) \div 86400

\* calculate_quality_score, lines 118-137: the score at time t, in units of
\* 1e-4 and truncated after each factor (the program multiplies floats).
\* Called only after validate_measurements has returned, so cloud_fraction
\* and solar_zenith_angle are numbers.
QualityScore(measurements, satellite_pass_time, t) ==
    LET cloud_fraction == MGet(measurements, "cloud_fraction", 100)
        sza == MGet(measurements, "solar_zenith_angle", 90)
        required_fields == {"no2_column", "o3_column", "hcho_column",
                            "aerosol_optical_depth"}
        present == {field \in required_fields :
                        /\ field \in DOMAIN measurements
                        /\ measurements[field] # NoneValue}
        s1 == (10000 * (1000 - cloud_fraction * quality_weights.cloud_fraction))
                  \div 1000
        s2 == (s1 * (450 - Max(0, sza - 45) * quality_weights.solar_zenith_angle))
                  \div 450
        s3 == (s2 * Cardinality(present) * quality_weights.data_completeness)
                  \div (Cardinality(required_fields) * 10)
        age_seconds == t - satellite_pass_time
        s4 == (s3 * quality_weights.temporal_freshness
                  * Max(0, 86400 - age_seconds)) \div 864000
    IN  s4

\* calculate_quality_score, lines 139-149.
calculate_quality_score(measurements, satellite_pass_time, t) ==
    LET score == QualityScore(measurements, satellite_pass_time, t)
    IN  IF score >= 8000 THEN "excellent"
        ELSE IF score >= 6000 THEN "good"
        ELSE IF score >= 4000 THEN "fair"
        ELSE IF score >= 2000 THEN "poor"
        ELSE "invalid"

\* round(num/den, 1) in tenths, for num/den already in tenths: to nearest,
\* ties to even.
round1(num, den) ==
    LET q == num \div den
        r == num % den
    IN  IF 2 * r < den THEN q
        ELSE IF 2 * r > den THEN q + 1
        ELSE IF q % 2 = 0 THEN q ELSE q + 1

\* datetime.now().hour of second t; second 0 is midnight.
Hour(t) == (t \div 3600) % 24

\* The two np.random.uniform draws of _process_surface_estimates, for the
\* outcome draw in {0, 1}: uniform(-10, 10) in units, uniform(1.5, 2.1) in
\* tenths.
Uniform1(draw) == 19 * draw - 10
Uniform2(draw) == 15 + 5 * draw

\* _process_surface_estimates at time t.
_process_surface_estimates(measurements, quality_flags, draw, t) ==
    LET no2_column == MGet(measurements, "no2_column", 0)
        o3_column == MGet(measurements, "o3_column", 0)
        is_daytime == 6 <= Hour(t) /\ Hour(t) <= 18
        aod == MGet(measurements, "aerosol_optical_depth", 0)
        \* pm25_estimate in hundredths
        pm25_estimate == Max(500, aod * 65 + Uniform1(draw) * 100)
        \* pm10_estimate in thousandths
        pm10_estimate == pm25_estimate * Uniform2(draw)
    IN  [no2 |-> round1(no2_column * 425, 10),
         o3 |-> IF is_daytime THEN round1(o3_column * 120 * 10, 300)
                ELSE round1(o3_column * 80 * 10, 300),
         pm25 |-> round1(pm25_estimate, 10),
         pm10 |-> round1(pm10_estimate, 100)]

\* A variant of the PM2.5 sub-index whose second segment replaces the first
\* above 35 ug/m3 instead of adding to it.
Pm25SubIndex_segments(pm25) ==
    IF pm25 <= 350 THEN 80 * pm25 ELSE 112 * (pm25 - 350)

\* _calculate_air_quality, line 452 before the clamp, in units of 1/560:
\* (pm25 / 35) * 50 + (max(0, pm25 - 35) / 25) * 50 for pm25 in tenths.
Pm25SubIndex(pm25) == 80 * pm25 + 112 * Max(0, pm25 - 350)

\* A variant of the clamp that has no upper end.
ClampIndex_open(x) == Max(0, x)

\* min(500, max(0, x)) for x in units of 1/560.
ClampIndex(x) == Min(500 * 560, Max(0, x))

\* The names of the pollutants, in the order of the dict of line 473.
PollutantNames == <<"NO2", "O3", "PM2.5", "PM10">>

\* _calculate_air_quality, lines 450-453: no2_aqi, o3_aqi, pm25_aqi and
\* pm10_aqi in units of 1/560, the common denominator of /20, /16, /7 + /5
\* and /10 on values in tenths.
SubIndices(surface_estimates) ==
    <<ClampIndex(28 * surface_estimates.no2),
      ClampIndex(35 * surface_estimates.o3),
      ClampIndex(Pm25SubIndex(surface_estimates.pm25)),
      ClampIndex(56 * surface_estimates.pm10
                    + 112 * Max(0, surface_estimates.pm10 - 500))>>

\* _calculate_air_quality, lines 473-478: no2/200, o3/160, pm25/35 and
\* pm10/50 in units of 1/56000.
Pollutants(surface_estimates) ==
    <<28 * surface_estimates.no2, 35 * surface_estimates.o3,
      160 * surface_estimates.pm25, 112 * surface_estimates.pm10>>

\* max(seq) over a sequence of four numbers.
Max4(seq) == Max(Max(seq[1], seq[2]), Max(seq[3], seq[4]))

\* _calculate_air_quality.  max(pollutants, key=pollutants.get) returns the
\* first key, in the order of the dict, whose value is the largest.
_calculate_air_quality(surface_estimates) ==
    LET aqi == Max4(SubIndices(surface_estimates)) \div 560
        category == IF aqi <= 50 THEN "Good"
                    ELSE IF aqi <= 100 THEN "Moderate"
                    ELSE IF aqi <= 150 THEN "Unhealthy for Sensitive Groups"
                    ELSE IF aqi <= 200 THEN "Unhealthy"
                    ELSE IF aqi <= 300 THEN "Very Unhealthy"
                    ELSE "Hazardous"
        pollutants == Pollutants(surface_estimates)
        first_max == CHOOSE i \in 1..4 :
                        /\ \A j \in 1..4 : pollutants[j] <= pollutants[i]
                        /\ \A j \in 1..(i - 1) : pollutants[j] < pollutants[i]
    IN  [aqi |-> aqi, category |-> category,
         dominant_pollutant |-> PollutantNames[first_max]]

(***************************************************************************)
(* Callers.  Each caller issues one call at a time: process_satellite_data *)
(* or a direct cache.get.                                                  *)
(***************************************************************************)
NoCall == [op |-> "none"]

\* The raw records a caller passes, with their 'timestamp' drawn from T.
RawRecords(T) ==
    [timestamp : T, satellite_pass_time : PassTimes,
     measurements : MeasurementSets, quality_flags : {<<>>}, metadata : {<<>>}]

Init ==
    /\ now = 0
    /\ cache = <<>>
    /\ access_order = <<>>
    /\ current_size = 0
    /\ files = <<>>
    /\ locked = FALSE
    /\ waiters = <<>>
    /\ _initialized = FALSE
    /\ pc = [p \in Procs |-> "idle"]
    /\ call = [p \in Procs |-> NoCall]
    /\ res = [p \in Procs |-> None]
    /\ cleared = FALSE

SetCache(s) ==
    /\ cache' = s.cache
    /\ access_order' = s.access_order
    /\ current_size' = s.current_size
    /\ files' = s.files

\* A coroutine suspended in _persist_to_disk holds the CacheEntry object it
\* inserted; while that object is in the cache, get's bookkeeping updates it.
Refs(s) ==
    [q \in Procs |->
        IF pc[q] = "open" /\ call[q].cache_key \in DOMAIN s.cache
        THEN [call[q] EXCEPT !.entry = s.cache[call[q].cache_key]]
        ELSE call[q]]

\* Keeps access_count within the bound of the model.
CanAccess(cache_key) ==
    cache_key \in DOMAIN cache => cache[cache_key].access_count < MaxAccessCount

\* A variant in which the cached value is never taken.
IsHit_never(cached_data) == FALSE

\* process_satellite_data, line 365: `if cached_data:`.
IsHit(cached_data) == cached_data # None

\* raw_data.get(key, default)
RawGet(raw_data, key, default) ==
    IF key \in DOMAIN raw_data THEN raw_data[key] ELSE default

\* process_satellite_data, lines 374-407, run at time t: the pipeline and
\* the record it builds; draw is the outcome of the np.random draws of
\* _process_surface_estimates.  processing_time_ms is left out.
ProcessedData(c, draw, t) ==
    LET measurements == RawGet(c.raw, "measurements", <<>>)
        quality_flags == RawGet(c.raw, "quality_flags", <<>>)
        satellite_pass_time == RawGet(c.raw, "satellite_pass_time", t)
        surface_estimates ==
            _process_surface_estimates(measurements, quality_flags, draw, t)
    IN  [city |-> c.city,
         coordinates |-> <<c.lat, c.lon>>,
         timestamp |-> RawGet(c.raw, "timestamp", t),
         satellite_pass_time |-> satellite_pass_time,
         measurements |-> measurements,
         surface_estimates |-> surface_estimates,
         air_quality |-> _calculate_air_quality(surface_estimates),
         quality_flags |-> quality_flags,
         metadata |-> RawGet(c.raw, "metadata", <<>>),
         data_quality |->
             calculate_quality_score(measurements, satellite_pass_time, t),
         cache_key |-> c.cache_key]

\* A variant in which a record that fails validation or scores invalid is
\* refused.
AbortsOnQuality_refused(is_valid, data_quality) ==
    ~is_valid \/ data_quality = "invalid"

\* process_satellite_data, lines 378-385: the verdict of the validation is
\* logged, the category is stored in the record; neither ends the call.
AbortsOnQuality(is_valid, data_quality) == FALSE

\* process_satellite_data, lines 374-385 at time t: the exception that
\* leaves the pipeline, "" when it runs to its end.
PipelineRaises(raw_data, t) ==
    LET measurements == RawGet(raw_data, "measurements", <<>>)
        v == validate_measurements(measurements)
    IN  IF v.raised # "" THEN v.raised
        ELSE IF AbortsOnQuality(v.is_valid,
                    calculate_quality_score(measurements,
                        RawGet(raw_data, "satellite_pass_time", t), t))
        THEN "ValueError"
        ELSE ""

\* A variant in which the pipeline runs without waiting for the lock.
CanAcquireNow_unguarded == TRUE

\* asyncio.Lock.acquire returns at once only when the lock is free and no
\* one waits for it.
CanAcquireNow == ~locked /\ waiters = <<>>

\* A variant in which only a normal exit of the block releases the lock.
LockedAfterExit_normal_only(exc) == exc # ""

\* process_satellite_data, line 370: `async with self.processing_lock`
\* releases the lock when the block is left, by its end or by the exception
\* exc.
LockedAfterExit(exc) == FALSE

\* process_satellite_data, lines 370-410: with the lock taken, the pipeline
\* and cache.put up to its await of the disk write, from cache state s.
\* call[p].evicted records the times of the entries the eviction pass of this
\* put removed, call[p].entry the CacheEntry object put holds while it
\* writes the file.  An exception of the pipeline leaves the `async with`, which
\* releases the lock, and reaches the caller; nothing catches it.
Compute(p, c, s, draw) ==
    LET processed_data == ProcessedData(c, draw, now)
        s2 == put(s, processed_data, now)
    IN  IF PipelineRaises(c.raw, now) # ""
        THEN
        /\ SetCache(s)
        /\ locked' = LockedAfterExit(PipelineRaises(c.raw, now))
        /\ pc' = [pc EXCEPT ![p] = "returned"]
        /\ call' = [Refs(s) EXCEPT ![p] = c]
        /\ res' = [res EXCEPT ![p] = [how |-> "error", data |-> None]]
        /\ UNCHANGED <<now, cleared>>
        ELSE
        /\ SetCache(s2)
        /\ locked' = TRUE
        /\ pc' = [pc EXCEPT ![p] = "open"]
        /\ call' = [Refs(s2) EXCEPT ![p] =
                       [c EXCEPT !.data = processed_data,
                                 !.entry = NewEntry(processed_data, now),
                                 !.evicted = [k \in DOMAIN s.cache \ DOMAIN s2.cache
                                 |-> [created_at |-> s.cache[k].created_at,
                                      last_accessed |-> s.cache[k].last_accessed]]]]
        /\ cleared' = FALSE
        /\ UNCHANGED <<now, res>>

\* process_satellite_data, lines 361-370: the lookup, then the return of the
\* cached value, or the pipeline, or the wait for the lock.
ProcessStart(p, raws, draws) ==
    /\ pc[p] = "idle"
    /\ UNCHANGED _initialized
    /\ \E city \in Cities, lat \in Lats, lon \in Lons, raw \in raws :
         LET cache_key == _generate_cache_key(city, lat, lon,
                              RawGet(raw, "timestamp", now))
             g == get(Self, cache_key, now)
             c == [op |-> "process", city |-> city, lat |-> lat, lon |-> lon,
                   raw |-> raw, cache_key |-> cache_key,
                   present |-> cache_key \in DOMAIN cache,
                   data |-> None, entry |-> None, evicted |-> <<>>]
         IN  /\ CanAccess(cache_key)
             /\ IF IsHit(g.value)
                THEN /\ SetCache(g.state)
                     /\ pc' = [pc EXCEPT ![p] = "returned"]
                     /\ call' = [Refs(g.state) EXCEPT ![p] = c]
                     /\ res' = [res EXCEPT ![p] =
                                   [how |-> "hit", data |-> g.value]]
                     /\ UNCHANGED <<now, locked, waiters, cleared>>
                ELSE IF CanAcquireNow
                THEN /\ \E draw \in draws : Compute(p, c, g.state, draw)
                     /\ UNCHANGED waiters
                ELSE /\ SetCache(g.state)
                     /\ pc' = [pc EXCEPT ![p] = "waiting"]
                     /\ call' = [Refs(g.state) EXCEPT ![p] = c]
                     /\ waiters' = Append(waiters, p)
                     /\ UNCHANGED <<now, locked, res, cleared>>

\* process_satellite_data, line 370 onwards for a caller that had to wait:
\* it is handed the lock and runs the pipeline.
ProcessAcquire(p, draws) ==
    /\ pc[p] = "waiting"
    /\ UNCHANGED _initialized
    /\ ~locked
    /\ waiters # <<>> /\ Head(waiters) = p
    /\ waiters' = Tail(waiters)
    /\ \E draw \in draws : Compute(p, call[p], Self, draw)

\* _persist_to_disk, lines 271-273: the file is created or truncated, then
\* the entry pickled.
DiskOpen(p) ==
    /\ pc[p] = "open"
    /\ UNCHANGED _initialized
    /\ files' = Store(files, call[p].cache_key, <<>>)
    /\ pc' = [pc EXCEPT ![p] = "write"]
    /\ UNCHANGED <<now, cache, access_order, current_size, locked, waiters,
                   call, res, cleared>>

\* _persist_to_disk, line 274 and the close: the bytes reach the file this
\* coroutine opened, if it is still linked under its name.  Then put
\* returns, and process_satellite_data releases processing_lock and returns
\* the computed value.
DiskWrite(p) ==
    /\ pc[p] = "write"
    /\ UNCHANGED _initialized
    /\ files' = IF call[p].cache_key \in DOMAIN files
                THEN Store(files, call[p].cache_key, <<call[p].entry>>)
                ELSE files
    /\ locked' = FALSE
    /\ pc' = [pc EXCEPT ![p] = "returned"]
    /\ res' = [res EXCEPT ![p] = [how |-> "computed", data |-> call[p].data]]
    /\ UNCHANGED <<now, cache, access_order, current_size, waiters, call,
                   cleared>>

\* SatelliteDataCache.get called on its own.
CacheGet(p, timestamps) ==
    /\ pc[p] = "idle"
    /\ UNCHANGED _initialized
    /\ \E city \in Cities, lat \in Lats, lon \in Lons, timestamp \in timestamps :
         LET cache_key == _generate_cache_key(city, lat, lon, timestamp)
             g == get(Self, cache_key, now)
         IN  /\ CanAccess(cache_key)
             /\ SetCache(g.state)
             /\ pc' = [pc EXCEPT ![p] = "got"]
             /\ call' = [Refs(g.state) EXCEPT ![p] =
                            [op |-> "get", cache_key |-> cache_key,
                             present |-> cache_key \in DOMAIN cache]]
             /\ res' = [res EXCEPT ![p] =
                           [how |-> IF g.value # None THEN "hit" ELSE "miss",
                            data |-> g.value]]
             /\ UNCHANGED <<now, locked, waiters, cleared>>

\* The caller takes the returned value.
Return(p) ==
    /\ pc[p] \in {"returned", "got"}
    /\ UNCHANGED _initialized
    /\ pc' = [pc EXCEPT ![p] = "idle"]
    /\ call' = [call EXCEPT ![p] = NoCall]
    /\ res' = [res EXCEPT ![p] = None]
    /\ UNCHANGED <<now, cache, access_order, current_size, files, locked,
                   waiters, cleared>>

\* RealTimeDataProcessor.clear_cache.
clear_cache ==
    /\ cache' = <<>>
    /\ UNCHANGED _initialized
    /\ access_order' = <<>>
    /\ current_size' = 0
    /\ files' = <<>>
    /\ cleared' = TRUE
    /\ UNCHANGED <<now, locked, waiters, pc, call, res>>

Tick ==
    /\ now < MaxTime
    /\ UNCHANGED _initialized
    /\ now' = now + 1
    /\ UNCHANGED <<cache, access_order, current_size, files, locked, waiters,
                   pc, call, res, cleared>>

(***************************************************************************)
(* Spec: one caller at a time, the whole input space, with clear_cache     *)
(* callable at every suspension point.                                     *)
(***************************************************************************)
Caller == "p1"

Next ==
    \/ ProcessStart(Caller, RawRecords(Timestamps), Noise)
    \/ DiskOpen(Caller)
    \/ DiskWrite(Caller)
    \/ CacheGet(Caller, Timestamps)
    \/ Return(Caller)
    \/ clear_cache
    \/ Tick

Spec == Init /\ [][Next]_vars

(***************************************************************************)
(* SpecConcurrent: several callers of process_satellite_data in flight at  *)
(* once within one second, with two outcomes of the random draws of the   *)
(* pipeline, so that a recomputation shows in the data.                    *)
(***************************************************************************)
ConcurrentTimestamps == {0, 1}
ConcurrentNoise == {0, 1}

NextConcurrent ==
    \/ \E p \in Procs : ProcessStart(p, RawRecords(ConcurrentTimestamps),
                                     ConcurrentNoise)
    \/ \E p \in Procs : ProcessAcquire(p, ConcurrentNoise)
    \/ \E p \in Procs : DiskOpen(p)
    \/ \E p \in Procs : DiskWrite(p)
    \/ \E p \in Procs : Return(p)
    \/ clear_cache

SpecConcurrent == Init /\ [][NextConcurrent]_vars

(***************************************************************************)
(* SpecDisk: one caller of process_satellite_data over two keys, with a    *)
(* disk that can fail.  _persist_to_disk catches every exception of the    *)
(* open and of the write and logs it.                                      *)
(***************************************************************************)

\* A variant in which the exception of the write leaves put.
PersistFailed_raised(data) == [how |-> "error", data |-> None]

\* _persist_to_disk, lines 275-276: the exception is logged; put returns and
\* process_satellite_data returns the computed value.
PersistFailed(data) == [how |-> "computed", data |-> data]

\* aiofiles.open raises: no file is created or truncated.
DiskOpenFail(p) ==
    /\ pc[p] = "open"
    /\ UNCHANGED _initialized
    /\ locked' = FALSE
    /\ pc' = [pc EXCEPT ![p] = "returned"]
    /\ res' = [res EXCEPT ![p] = PersistFailed(call[p].data)]
    /\ UNCHANGED <<now, cache, access_order, current_size, files, waiters,
                   call, cleared>>

\* f.write raises: the file stays as the open left it, without the entry.
DiskWriteFail(p) ==
    /\ pc[p] = "write"
    /\ UNCHANGED _initialized
    /\ locked' = FALSE
    /\ pc' = [pc EXCEPT ![p] = "returned"]
    /\ res' = [res EXCEPT ![p] = PersistFailed(call[p].data)]
    /\ UNCHANGED <<now, cache, access_order, current_size, files, waiters,
                   call, cleared>>

DiskTimestamps == {0, 1}

NextDisk ==
    \/ ProcessStart(Caller, RawRecords(DiskTimestamps), Noise)
    \/ DiskOpen(Caller)
    \/ DiskOpenFail(Caller)
    \/ DiskWrite(Caller)
    \/ DiskWriteFail(Caller)
    \/ Return(Caller)
    \/ clear_cache
    \/ Tick

SpecDisk == Init /\ [][NextDisk]_vars

(***************************************************************************)
(* SpecStartup: initialize and load_from_disk over the directory a         *)
(* previous run left behind.  TEMPOService.__aenter__ calls initialize for *)
(* every request, so several calls can be in flight.  load_from_disk       *)
(* suspends at the open, the read and the close of every file; the model   *)
(* takes one step per file, and one more for the return after the last.    *)
(***************************************************************************)
StartupTimestamps == {0, 1}

\* The times at which the previous run put its entries: expired at time 0,
\* expiring at time 0, and fresh.
PersistedAt == {0 - ttl_seconds - 1, 0 - ttl_seconds, 0}

PersistedCalls ==
    {[op |-> "process", city |-> city, lat |-> lat, lon |-> lon, raw |-> raw,
      cache_key |-> _generate_cache_key(city, lat, lon, raw.timestamp)] :
        city \in Cities, lat \in Lats, lon \in Lons,
        raw \in RawRecords(StartupTimestamps)}

\* What a file of the directory can hold: nothing that unpickles (<<>>), or
\* the entry that a put at time t wrote.
PersistedContents(c) ==
    {<<>>} \cup {<<NewEntry(ProcessedData(c, 0, t), t)>> : t \in PersistedAt}

Directories ==
    UNION {
        {f \in [{c.cache_key : c \in C} ->
                   UNION {PersistedContents(c) : c \in C}] :
            \A c \in C : f[c.cache_key] \in PersistedContents(c)} :
        C \in SUBSET PersistedCalls}

InitStartup ==
    /\ now = 0
    /\ cache = <<>>
    /\ access_order = <<>>
    /\ current_size = 0
    /\ files \in Directories
    /\ locked = FALSE
    /\ waiters = <<>>
    /\ _initialized = FALSE
    /\ pc = [p \in Procs |-> "idle"]
    /\ call = [p \in Procs |-> NoCall]
    /\ res = [p \in Procs |-> None]
    /\ cleared = FALSE

\* cache_dir.glob("*.pkl"): the names in the order the file system gives.
Listings(S) ==
    {q \in [1..Cardinality(S) -> S] :
        \A i, j \in 1..Cardinality(S) : i # j => q[i] # q[j]}

\* load_from_disk, line 288: the entry is loaded unless it has expired.
Loadable(t, entry) == t <= entry.expires_at

\* A variant in which a file that does not unpickle ends the loading.
AfterCorrupt_stop(rest) == <<>>

\* load_from_disk, lines 298-300: after a file that does not unpickle the
\* loop goes on with the files that remain.
AfterCorrupt(rest) == rest

\* initialize, lines 346-353, up to the first suspension: the flag is
\* tested, the directory is listed, and with no file to read the call is
\* over at once.
initialize(p) ==
    /\ pc[p] = "idle"
    /\ IF _initialized
       THEN /\ pc' = [pc EXCEPT ![p] = "returned"]
            /\ call' = [call EXCEPT ![p] = [op |-> "initialize"]]
            /\ res' = [res EXCEPT ![p] = [how |-> "ready", data |-> None]]
            /\ UNCHANGED _initialized
       ELSE IF DOMAIN files = {}
       THEN /\ _initialized' = TRUE
            /\ pc' = [pc EXCEPT ![p] = "returned"]
            /\ call' = [call EXCEPT ![p] = [op |-> "initialize"]]
            /\ res' = [res EXCEPT ![p] =
                          [how |-> "initialized", data |-> None]]
       ELSE /\ \E listing \in Listings(DOMAIN files) :
                 call' = [call EXCEPT ![p] =
                             [op |-> "initialize", listing |-> listing,
                              todo |-> listing, skipped |-> {}]]
            /\ pc' = [pc EXCEPT ![p] = "loading"]
            /\ UNCHANGED <<_initialized, res>>
    /\ UNCHANGED <<now, cache, access_order, current_size, files, locked,
                   waiters, cleared>>

\* load_from_disk, lines 282-300: one file of the listing.  A file that is
\* gone makes the open raise and then the unlink of the handler raise, which
\* ends the loop (line 301).  call[p].skipped records the files deleted
\* because they did not unpickle.
LoadFile(p) ==
    /\ pc[p] = "loading"
    /\ call[p].todo # <<>>
    /\ LET cache_key == Head(call[p].todo)
           rest == Tail(call[p].todo)
       IN  IF cache_key \notin DOMAIN files
           THEN /\ call' = [call EXCEPT ![p].todo = <<>>]
                /\ UNCHANGED <<cache, access_order, current_size, files>>
           ELSE IF files[cache_key] = <<>>
           THEN /\ files' = Drop(files, cache_key)
                /\ call' = [call EXCEPT ![p].todo = AfterCorrupt(rest),
                                        ![p].skipped = @ \cup {cache_key}]
                /\ UNCHANGED <<cache, access_order, current_size>>
           ELSE LET entry == files[cache_key][1]
                IN  IF Loadable(now, entry)
                    THEN /\ cache' = Store(cache, cache_key, entry)
                         /\ current_size' = current_size + entry.file_size_bytes
                         /\ access_order' = Append(access_order, cache_key)
                         /\ call' = [call EXCEPT ![p].todo = rest]
                         /\ UNCHANGED files
                    ELSE /\ files' = Drop(files, cache_key)
                         /\ call' = [call EXCEPT ![p].todo = rest]
                         /\ UNCHANGED <<cache, access_order, current_size>>
    /\ UNCHANGED <<now, locked, waiters, _initialized, pc, res, cleared>>

\* initialize, lines 352-353: load_from_disk has returned.
InitializeDone(p) ==
    /\ pc[p] = "loading"
    /\ call[p].todo = <<>>
    /\ _initialized' = TRUE
    /\ pc' = [pc EXCEPT ![p] = "returned"]
    /\ res' = [res EXCEPT ![p] = [how |-> "initialized", data |-> None]]
    /\ UNCHANGED <<now, cache, access_order, current_size, files, locked,
                   waiters, call, cleared>>

NextStartup ==
    \/ \E p \in Procs : initialize(p)
    \/ \E p \in Procs : LoadFile(p)
    \/ \E p \in Procs : InitializeDone(p)
    \/ \E p \in Procs : Return(p)
    \/ Tick

SpecStartup == InitStartup /\ [][NextStartup]_vars

(***************************************************************************)
(* SpecRun: one process from its start on an empty directory.  main.py     *)
(* calls get_tempo_data on a TEMPOService it has not entered, so           *)
(* process_satellite_data can run, and persist entries, before the first   *)
(* request that enters a TEMPOService and so calls initialize.             *)
(***************************************************************************)
RunTimestamps == {0, 1}

NextRun ==
    \/ ProcessStart(Caller, RawRecords(RunTimestamps), Noise)
    \/ DiskOpen(Caller)
    \/ DiskWrite(Caller)
    \/ Return(Caller)
    \/ initialize(Caller)
    \/ LoadFile(Caller)
    \/ InitializeDone(Caller)
    \/ Tick

SpecRun == Init /\ [][NextRun]_vars

(***************************************************************************)
(* SpecPipeline: one caller of process_satellite_data over raw records of  *)
(* every kind a source can hand in: complete, out of range, with fields    *)
(* missing, with fields set to None, fresh, stale, dated ahead of the      *)
(* clock, with and without a 'timestamp'.                                  *)
(***************************************************************************)
CompleteMeasurements ==
    [cloud_fraction |-> 10, solar_zenith_angle |-> 30, no2_column |-> 4,
     o3_column |-> 320, hcho_column |-> 1, aerosol_optical_depth |-> 20]

PipelineMeasurements ==
    {CompleteMeasurements,
     [cloud_fraction |-> 95, solar_zenith_angle |-> 80, no2_column |-> 600,
      o3_column |-> 50, hcho_column |-> 1, aerosol_optical_depth |-> 400],
     [hcho_column |-> 1],
     [CompleteMeasurements EXCEPT !.no2_column = NoneValue],
     [CompleteMeasurements EXCEPT !.hcho_column = NoneValue]}

\* Passes at second 0, 30 hours before it and 3 days after it.
PipelinePassTimes == {0, 0 - 30 * 3600, 3 * 86400}

PipelineTimestamps == {0}

PipelineNoise == {0, 1}

PipelineRaws ==
    [timestamp : PipelineTimestamps, satellite_pass_time : PipelinePassTimes,
     measurements : PipelineMeasurements, quality_flags : {<<>>},
     metadata : {<<>>}]
    \cup
    [satellite_pass_time : {0}, measurements : {CompleteMeasurements},
     quality_flags : {<<>>}, metadata : {<<>>}]

NextPipeline ==
    \/ ProcessStart(Caller, PipelineRaws, PipelineNoise)
    \/ DiskOpen(Caller)
    \/ DiskWrite(Caller)
    \/ Return(Caller)
    \/ Tick

SpecPipeline == Init /\ [][NextPipeline]_vars

(***************************************************************************)
(* SpecClock: two callers of process_satellite_data while the clock runs,  *)
(* over records with and without a 'timestamp'.  A record without one is   *)
(* given datetime.now() wherever the code reads its timestamp: for the key *)
(* before the lock is taken, for the record after it.                      *)
(***************************************************************************)
ClockTimestamps == {0}

ClockRaws ==
    RawRecords(ClockTimestamps)
    \cup
    [satellite_pass_time : PassTimes, measurements : MeasurementSets,
     quality_flags : {<<>>}, metadata : {<<>>}]

NextClock ==
    \/ \E p \in Procs : ProcessStart(p, ClockRaws, Noise)
    \/ \E p \in Procs : ProcessAcquire(p, Noise)
    \/ \E p \in Procs : DiskOpen(p)
    \/ \E p \in Procs : DiskWrite(p)
    \/ \E p \in Procs : Return(p)
    \/ Tick

SpecClock == Init /\ [][NextClock]_vars

(***************************************************************************)
(* SpecLive: two callers of process_satellite_data over a record the       *)
(* pipeline accepts and one it raises on, with a disk that can fail.  The  *)
(* event loop runs every coroutine that is ready: a waiter that is handed  *)
(* the free lock runs, and an open or a write that was started ends, in    *)
(* success or in an exception.  Nothing obliges a caller to call.          *)
(***************************************************************************)
LiveTimestamps == {0, 1}

LiveRaws ==
    [timestamp : LiveTimestamps, satellite_pass_time : PassTimes,
     measurements : {CompleteMeasurements,
                     [CompleteMeasurements EXCEPT !.no2_column = NoneValue]},
     quality_flags : {<<>>}, metadata : {<<>>}]

NextLive ==
    \/ \E p \in Procs : ProcessStart(p, LiveRaws, Noise)
    \/ \E p \in Procs : ProcessAcquire(p, Noise)
    \/ \E p \in Procs : DiskOpen(p)
    \/ \E p \in Procs : DiskOpenFail(p)
    \/ \E p \in Procs : DiskWrite(p)
    \/ \E p \in Procs : DiskWriteFail(p)
    \/ \E p \in Procs : Return(p)

\* The step in which the waiter at the head of the queue is handed the free
\* lock.  Of the steps of NextLive only ProcessAcquire(p, Noise) removes p
\* from the queue, and it can be taken whenever p is at the head and the lock
\* is free, so fairness for this step is fairness for ProcessAcquire.
LockHandOff(p) ==
    /\ pc[p] = "waiting"
    /\ ~locked
    /\ waiters # <<>> /\ Head(waiters) = p
    /\ waiters' = Tail(waiters)

Scheduling ==
    \A p \in Procs :
        /\ WF_waiters(LockHandOff(p))
        /\ WF_vars(DiskOpen(p) \/ DiskOpenFail(p))
        /\ WF_vars(DiskWrite(p) \/ DiskWriteFail(p))

SpecLive == Init /\ [][NextLive]_vars /\ Scheduling

(***************************************************************************)
(* SpecCompute: the computing part of process_satellite_data (lines        *)
(* 374-391: validation, score, surface estimates, index) as a function of  *)
(* the record and the clock.  Two callers each hold a record and run it    *)
(* once, at the same clock; the clock is at midnight or at noon.           *)
(***************************************************************************)
\* A record that carries ground values of PM2.5 and NO2 (tenths of ug/m3)
\* next to the satellite fields.
GroundMeasurements ==
    [cloud_fraction |-> 10, solar_zenith_angle |-> 30, no2_column |-> 4,
     o3_column |-> 320, hcho_column |-> 1, aerosol_optical_depth |-> 20,
     pm25 |-> 800, no2 |-> 330]

ComputeMeasurements ==
    {CompleteMeasurements,
     [CompleteMeasurements EXCEPT !.cloud_fraction = 95],
     [CompleteMeasurements EXCEPT !.cloud_fraction = 95,
                                  !.solar_zenith_angle = 60],
     [CompleteMeasurements EXCEPT !.no2_column = 0, !.o3_column = 0,
                                  !.aerosol_optical_depth = 0],
     [CompleteMeasurements EXCEPT !.no2_column = 0 - 4],
     GroundMeasurements,
     [no2_column |-> 4, o3_column |-> 320],
     <<>>}

ComputeClocks == {0, 12 * 3600}

\* Passes at midnight, half an hour before noon and at noon.
ComputePassTimes == {0, 12 * 3600 - 1800, 12 * 3600}

ComputeCalls ==
    [op : {"compute"}, measurements : ComputeMeasurements,
     satellite_pass_time : ComputePassTimes]

InitCompute ==
    /\ now \in ComputeClocks
    /\ cache = <<>>
    /\ access_order = <<>>
    /\ current_size = 0
    /\ files = <<>>
    /\ locked = FALSE
    /\ waiters = <<>>
    /\ _initialized = FALSE
    /\ pc = [p \in Procs |-> "idle"]
    /\ call \in [Procs -> ComputeCalls]
    /\ res = [p \in Procs |-> None]
    /\ cleared = FALSE

\* process_satellite_data, lines 378-391, for records whose validation
\* returns.
ComputeRecord(p) ==
    /\ pc[p] = "idle"
    /\ call[p].op = "compute"
    /\ \E draw \in PipelineNoise :
          LET measurements == call[p].measurements
              v == validate_measurements(measurements)
              surface_estimates ==
                  _process_surface_estimates(measurements, <<>>, draw, now)
          IN  /\ v.raised = ""
              /\ res' = [res EXCEPT ![p] =
                     [is_valid |-> v.is_valid,
                      issues |-> v.issues,
                      data_quality |->
                          calculate_quality_score(measurements,
                              call[p].satellite_pass_time, now),
                      surface_estimates |-> surface_estimates,
                      air_quality |-> _calculate_air_quality(surface_estimates)]]
    /\ pc' = [pc EXCEPT ![p] = "computed"]
    /\ UNCHANGED <<now, cache, access_order, current_size, files, locked,
                   waiters, _initialized, call, cleared>>

NextCompute == \E p \in Procs : ComputeRecord(p)

SpecCompute == InitCompute /\ [][NextCompute]_vars

(***************************************************************************)
(* SpecIndex: _calculate_air_quality as a function of the surface          *)
(* estimates, over values below zero, at zero, at the reference levels of  *)
(* the four pollutants and beyond the end of the index scale.              *)
(***************************************************************************)
\* Surface values in tenths of ug/m3: 35 and 50 are the levels named in the
\* PM sub-indices, 160 and 200 the reference levels of O3 and NO2.
IndexValues == {0 - 10, 0, 350, 500, 1600, 2000, 6000}

IndexCalls ==
    [op : {"index"},
     surface_estimates : [no2 : IndexValues, o3 : IndexValues,
                          pm25 : IndexValues, pm10 : IndexValues]]

InitIndex ==
    /\ now = 0
    /\ cache = <<>>
    /\ access_order = <<>>
    /\ current_size = 0
    /\ files = <<>>
    /\ locked = FALSE
    /\ waiters = <<>>
    /\ _initialized = FALSE
    /\ pc = [p \in Procs |-> "idle"]
    /\ \E c \in IndexCalls :
          call = [p \in Procs |-> IF p = Caller THEN c ELSE NoCall]
    /\ res = [p \in Procs |-> None]
    /\ cleared = FALSE

CalculateIndex(p) ==
    /\ pc[p] = "idle"
    /\ call[p].op = "index"
    /\ pc' = [pc EXCEPT ![p] = "indexed"]
    /\ res' = [res EXCEPT ![p] =
                  _calculate_air_quality(call[p].surface_estimates)]
    /\ UNCHANGED <<now, cache, access_order, current_size, files, locked,
                   waiters, _initialized, call, cleared>>

NextIndex == CalculateIndex(Caller)

SpecIndex == InitIndex /\ [][NextIndex]_vars

(***************************************************************************)
(* SpecKey: _generate_cache_key as a function of its arguments.  Each      *)
(* caller holds one argument tuple and computes its key.                   *)
(***************************************************************************)
KeyCities == {"NYC", "LA"}
KeyLats == {-1, 1, 4071280, 4071284, 4071286}
KeyLons == {-7400600, -7400604}
KeyTimestamps == {0, 1}

KeyCalls ==
    [op : {"key"}, city : KeyCities, lat : KeyLats, lon : KeyLons,
     timestamp : KeyTimestamps]

InitKey ==
    /\ now = 0
    /\ cache = <<>>
    /\ access_order = <<>>
    /\ current_size = 0
    /\ files = <<>>
    /\ locked = FALSE
    /\ waiters = <<>>
    /\ _initialized = FALSE
    /\ pc = [p \in Procs |-> "idle"]
    /\ call \in [Procs -> KeyCalls]
    /\ res = [p \in Procs |-> None]
    /\ cleared = FALSE

GenerateKey(p) ==
    /\ pc[p] = "idle"
    /\ UNCHANGED _initialized
    /\ pc' = [pc EXCEPT ![p] = "keyed"]
    /\ res' = [res EXCEPT ![p] =
                  [key |-> _generate_cache_key(call[p].city, call[p].lat,
                                               call[p].lon, call[p].timestamp)]]
    /\ UNCHANGED <<now, cache, access_order, current_size, files, locked,
                   waiters, call, cleared>>

NextKey == \E p \in Procs : GenerateKey(p)

SpecKey == InitKey /\ [][NextKey]_vars

(***************************************************************************)
(* SpecBatch: the route batch_process_cities.  A request holds the pieces  *)
(* of its comma-separated `cities` parameter and max_concurrent; the       *)
(* cities are processed by tasks that a semaphore admits max_concurrent at *)
(* a time, each ending in success or in an error of process_realtime_data. *)
(***************************************************************************)
MaxBatchCities == 20

BatchSizes == {1, 2, MaxBatchCities, MaxBatchCities + 1, MaxBatchCities + 2}

BatchConcurrency == {1, 5}

\* str.strip on the pieces the requests hold.
strip(piece) == IF piece = " LA " THEN "LA" ELSE piece

BatchRequests ==
    [op : {"batch"},
     cities : {[i \in 1..n |-> IF i = 1 THEN " LA " ELSE "NYC"] : n \in BatchSizes},
     max_concurrent : BatchConcurrency,
     city_list : {<<>>}, started : {0}, finished : {0},
     successful : {0}, failed : {0}]

InitBatch ==
    /\ now = 0
    /\ cache = <<>>
    /\ access_order = <<>>
    /\ current_size = 0
    /\ files = <<>>
    /\ locked = FALSE
    /\ waiters = <<>>
    /\ _initialized = FALSE
    /\ pc = [p \in Procs |-> "idle"]
    /\ \E r \in BatchRequests :
           call = [p \in Procs |-> IF p = Caller THEN r ELSE NoCall]
    /\ res = [p \in Procs |-> None]
    /\ cleared = FALSE

HTTPException(status_code, detail) ==
    [status_code |-> status_code, detail |-> detail]

\* batch_process_cities, lines 296-297: `except Exception as e` around the
\* whole body.  HTTPException is a subclass of Exception, so the clause takes
\* the exception the body raised itself; the detail is the fixed text
\* followed by str(e), kept here as e.
ExceptException(e) ==
    [status_code |-> 500, detail |-> "Failed to batch process cities",
     e |-> e]

\* batch_process_cities, lines 254-268: the list is split and stripped and
\* its length tested inside the try block; then the tasks are created.
BatchStart(p) ==
    /\ pc[p] = "idle"
    /\ call[p].op = "batch"
    /\ LET city_list == [i \in DOMAIN call[p].cities |-> strip(call[p].cities[i])]
       IN  /\ call' = [call EXCEPT ![p].city_list = city_list]
           /\ IF Len(city_list) > MaxBatchCities
              THEN /\ pc' = [pc EXCEPT ![p] = "returned"]
                   /\ res' = [res EXCEPT ![p] = ExceptException(
                                 HTTPException(400,
                                     "Maximum 20 cities allowed per batch"))]
              ELSE /\ pc' = [pc EXCEPT ![p] = "gather"]
                   /\ UNCHANGED res
    /\ UNCHANGED <<now, cache, access_order, current_size, files, locked,
                   waiters, _initialized, cleared>>

\* process_single_city, lines 261-263: a task passes the semaphore and calls
\* process_realtime_data for its city.
CityStart(p) ==
    /\ pc[p] = "gather"
    /\ call[p].started < Len(call[p].city_list)
    /\ call[p].started - call[p].finished < call[p].max_concurrent
    /\ call' = [call EXCEPT ![p].started = @ + 1]
    /\ UNCHANGED <<now, cache, access_order, current_size, files, locked,
                   waiters, _initialized, pc, res, cleared>>

\* process_single_city, lines 263-266: the call returns or raises; either
\* way the task returns a result and leaves the semaphore.
CityFinish(p) ==
    /\ pc[p] = "gather"
    /\ call[p].finished < call[p].started
    /\ \E ok \in BOOLEAN :
           call' = [call EXCEPT ![p].finished = @ + 1,
                                ![p].successful = IF ok THEN @ + 1 ELSE @,
                                ![p].failed = IF ok THEN @ ELSE @ + 1]
    /\ UNCHANGED <<now, cache, access_order, current_size, files, locked,
                   waiters, _initialized, pc, res, cleared>>

\* batch_process_cities, lines 269-294: gather has every result; the counts
\* are returned.
BatchReturn(p) ==
    /\ pc[p] = "gather"
    /\ call[p].finished = Len(call[p].city_list)
    /\ pc' = [pc EXCEPT ![p] = "returned"]
    /\ res' = [res EXCEPT ![p] =
                  [status_code |-> 200,
                   total_cities |-> Len(call[p].city_list),
                   successful |-> call[p].successful,
                   failed |-> call[p].failed]]
    /\ UNCHANGED <<now, cache, access_order, current_size, files, locked,
                   waiters, _initialized, call, cleared>>

NextBatch ==
    \/ BatchStart(Caller)
    \/ CityStart(Caller)
    \/ CityFinish(Caller)
    \/ BatchReturn(Caller)

SpecBatch == InitBatch /\ [][NextBatch]_vars

(***************************************************************************)
(* Properties.                                                             *)
(***************************************************************************)

\* The step in which caller p looks a key up (the first step of a
\* process_satellite_data or cache.get call).
Lookup(p) == pc[p] = "idle" /\ pc'[p] # "idle"

\* The step in which caller p runs the pipeline and inserts its result.
Puts(p) == pc[p] \in {"idle", "waiting"} /\ pc'[p] = "open"

\* C1: the tracked total size never exceeds the byte budget: whenever put has
\* completed its in-memory insert, current_size <= max_size_bytes.
C1_SizeWithinBudget == current_size <= max_size_bytes

\* C2: whenever a put evicts, every entry it removes was last accessed no
\* later than every entry it keeps: recency of access, not of creation,
\* decides who leaves first.
C2_EvictsLeastRecentlyAccessed ==
    [][\A p \in Procs :
          Puts(p) =>
              \A r \in DOMAIN cache \ DOMAIN cache' :
                  \A j \in (DOMAIN cache \cap DOMAIN cache')
                               \ {call'[p].cache_key} :
                      cache[r].last_accessed <= cache[j].last_accessed]_vars

\* C2 witness: a put has evicted an entry B and kept an entry A that was
\* created before B and accessed after it.
C2_Witness ==
    \E p \in Procs :
        /\ pc[p] = "open"
        /\ \E r \in DOMAIN call[p].evicted :
               \E j \in DOMAIN cache \ {call[p].cache_key} :
                   /\ r \notin DOMAIN cache
                   /\ cache[j].created_at < call[p].evicted[r].created_at
                   /\ cache[j].last_accessed > call[p].evicted[r].last_accessed

\* C3: a lookup never returns a value for an entry with expires_at <= now,
\* the instant now = expires_at included.
C3_NoValueOnceExpired ==
    [][\A p \in Procs :
          (Lookup(p) /\ pc'[p] \in {"returned", "got"} /\ res'[p].how = "hit")
              => now < cache[call'[p].cache_key].expires_at]_vars

\* C4: for an entry put at time t with TTL T, a lookup of its key at t + T - 1
\* returns its value; a get at t + T + 1 returns not-found and removes the
\* entry, so that the entry count of the stats drops by one (a
\* process_satellite_data call at t + T + 1 misses and goes on to compute).
C4_TtlWindow ==
    [][\A p \in Procs :
          (Lookup(p) /\ call'[p].present) =>
              LET k == call'[p].cache_key
                  e == cache[k]
              IN  /\ now = e.created_at + ttl_seconds - 1 =>
                        /\ pc'[p] \in {"returned", "got"}
                        /\ res'[p] = [how |-> "hit", data |-> e.data]
                  /\ now = e.created_at + ttl_seconds + 1 =>
                        IF call'[p].op = "get"
                        THEN /\ res'[p] = [how |-> "miss", data |-> None]
                             /\ k \notin DOMAIN cache'
                             /\ get_cache_stats(Self').total_entries
                                  = get_cache_stats(Self).total_entries - 1
                        ELSE pc'[p] \in {"open", "waiting"}]_vars

\* C4 witness: a get one second after the expiry of an entry put at time 0
\* found it in the map, returned not-found and removed it.
C4_Witness ==
    \E p \in Procs :
        /\ pc[p] = "got"
        /\ call[p].present
        /\ res[p].how = "miss"
        /\ call[p].cache_key \notin DOMAIN cache
        /\ now = ttl_seconds + 1

\* C5: a caller that missed and then waited for the processing lock does not
\* run the pipeline when, at the moment it gets the lock, the cache holds a
\* live entry for its key (it re-checks and returns that entry instead).
C5_WaiterRechecksCache ==
    [][\A p \in Procs :
          (pc[p] = "waiting" /\ pc'[p] = "open") =>
              ~(/\ call[p].cache_key \in DOMAIN cache
                /\ now < cache[call[p].cache_key].expires_at)]_vars

\* C6: at most one caller is inside the compute critical section (after the
\* lock is taken, until put has returned) at any moment.
C6_OneComputationAtATime ==
    Cardinality({p \in Procs : pc[p] \in {"open", "write"}}) <= 1

\* C6 witness: one caller is inside the critical section while another
\* waits for the lock.
C6_Witness ==
    \E p, q \in Procs : pc[p] \in {"open", "write"} /\ pc[q] = "waiting"

\* C7: a process_satellite_data call whose key is in the cache and not yet
\* expired returns the stored data unchanged and runs no pipeline and no
\* put: the entry keeps its data, nothing is inserted, no file is written
\* and the processing lock is not taken.
C7_HitRunsNothing ==
    [][\A p \in Procs :
          (/\ Lookup(p)
           /\ call'[p].op = "process"
           /\ call'[p].present
           /\ now < cache[call'[p].cache_key].expires_at)
          => LET k == call'[p].cache_key
             IN  /\ pc'[p] = "returned"
                 /\ res'[p] = [how |-> "hit", data |-> cache[k].data]
                 /\ DOMAIN cache' = DOMAIN cache
                 /\ cache'[k].data = cache[k].data
                 /\ cache'[k].created_at = cache[k].created_at
                 /\ current_size' = current_size
                 /\ files' = files
                 /\ locked' = locked]_vars

\* C7 witness: a process_satellite_data call has returned the stored data of
\* an entry computed by an earlier call.
C7_Witness ==
    \E p \in Procs :
        /\ pc[p] = "returned"
        /\ res[p].how = "hit"
        /\ call[p].cache_key \in DOMAIN cache
        /\ res[p].data = cache[call[p].cache_key].data
        /\ cache[call[p].cache_key].access_count = 2

\* C8: two argument tuples get the same key exactly when they have the same
\* label, the same latitude and longitude after rounding to 4 decimals, and
\* the same timestamp.
C8_KeyOfRoundedTuple ==
    \A p, q \in Procs :
        (pc[p] = "keyed" /\ pc[q] = "keyed") =>
            ((/\ call[p].city = call[q].city
              /\ Round4(call[p].lat) = Round4(call[q].lat)
              /\ Round4(call[p].lon) = Round4(call[q].lon)
              /\ call[p].timestamp = call[q].timestamp)
             <=> res[p].key = res[q].key)

\* C9: a process_satellite_data call is a cache hit whenever the cache holds
\* a live entry for the same location, coordinates and source timestamp
\* (satellite_pass_time), whatever the time of the request.
C9_KeyFromSourceTimestamp ==
    [][\A p \in Procs :
          (/\ Lookup(p)
           /\ call'[p].op = "process"
           /\ \E k \in DOMAIN cache :
                 /\ now < cache[k].expires_at
                 /\ cache[k].data.city = call'[p].city
                 /\ cache[k].data.coordinates = <<call'[p].lat, call'[p].lon>>
                 /\ cache[k].data.satellite_pass_time
                      = call'[p].raw.satellite_pass_time)
          => pc'[p] = "returned"]_vars

\* C10: once clear_cache has completed, and until a new put starts, there
\* are no in-memory entries and no backing files, also when the disk write
\* of an earlier put was in flight when clear_cache ran.
C10_ClearedStaysEmpty == cleared => (cache = <<>> /\ files = <<>>)

\* The entries of the map that a step removes or replaces by a new entry.
Leaves(k) ==
    /\ k \in DOMAIN cache
    /\ k \notin DOMAIN cache' \/ cache'[k].created_at # cache[k].created_at

RECURSIVE SumOfSizes(_, _)
SumOfSizes(f, K) ==
    IF K = {} THEN 0
    ELSE LET k == CHOOSE x \in K : TRUE
         IN  f[k].file_size_bytes + SumOfSizes(f, K \ {k})

Occurrences(seq, k) == Cardinality({i \in DOMAIN seq : seq[i] = k})

\* C11: an entry that leaves the cache in a lookup (expiry purge) or in a put
\* (LRU eviction) leaves it whole: after the step its key has no file on
\* disk, the recency list holds the key only if the same step inserted a new
\* entry for it (then once), and the tracked size has dropped by the sizes of
\* the entries that left.
C11_LeavesMemoryAndDisk ==
    [][\A p \in Procs :
          (Lookup(p) \/ Puts(p)) =>
              LET gone == {k \in DOMAIN cache : Leaves(k)}
                  new == {k \in DOMAIN cache' :
                             k \notin DOMAIN cache \/ Leaves(k)}
              IN  /\ \A k \in gone :
                         /\ k \notin DOMAIN files'
                         /\ Occurrences(access_order', k)
                              = IF k \in DOMAIN cache' THEN 1 ELSE 0
                  /\ current_size' = current_size - SumOfSizes(cache, gone)
                                         + SumOfSizes(cache', new)]_vars

\* C11 witness: a put has evicted an entry, and its key is now in neither the
\* map, the recency list nor the directory.
C11_Witness ==
    \E p \in Procs :
        /\ pc[p] = "open"
        /\ call[p].evicted # <<>>
        /\ \A r \in DOMAIN call[p].evicted :
               /\ r \notin DOMAIN cache
               /\ r \notin Range(access_order)
               /\ r \notin DOMAIN files

\* C12: put does not wait for the disk: once a caller's entry has been
\* inserted in memory the caller has its result, whether or not the file has
\* been written.
C12_PutDoesNotWaitForDisk ==
    \A p \in Procs :
        (call[p].op = "process" /\ call[p].entry # None) => pc[p] = "returned"

\* The step in which the put of caller p ends without its entry on disk.
WriteFails(p) ==
    /\ pc'[p] = "returned"
    /\ \/ pc[p] = "open"
       \/ pc[p] = "write" /\ files' = files

\* The file of key k is missing or does not hold an entry.
NotPersisted(k) == k \notin DOMAIN files \/ files[k] = <<>>

\* C13: when the open or the write of a put fails, put raises nothing: the
\* caller gets the computed value, the in-memory cache is as the insert left
\* it (the entry is there unless clear_cache has run meanwhile), the lock is
\* released; and a later lookup of a key whose entry is in memory and not on
\* disk returns the stored value until it expires.
C13_DiskFailureKeepsEntry ==
    [][\A p \in Procs :
          /\ WriteFails(p) =>
                /\ res'[p] = [how |-> "computed", data |-> call[p].data]
                /\ cache' = cache
                /\ access_order' = access_order
                /\ current_size' = current_size
                /\ ~locked'
                /\ ~cleared =>
                      /\ call[p].cache_key \in DOMAIN cache'
                      /\ cache'[call[p].cache_key].data = call[p].data
          /\ (/\ Lookup(p)
              /\ call'[p].present
              /\ now < cache[call'[p].cache_key].expires_at
              /\ NotPersisted(call'[p].cache_key)) =>
                /\ pc'[p] \in {"returned", "got"}
                /\ res'[p] = [how |-> "hit",
                              data |-> cache[call'[p].cache_key].data]]_vars

\* C13 witness: a lookup has returned the value of an entry that is in memory
\* and whose file was never written.
C13_Witness ==
    \E p \in Procs :
        /\ pc[p] \in {"returned", "got"}
        /\ res[p].how = "hit"
        /\ call[p].cache_key \in DOMAIN cache
        /\ NotPersisted(call[p].cache_key)

\* The step in which caller p reads one file of its listing.
Loads(p) ==
    /\ pc[p] = "loading"
    /\ call[p].todo # <<>>
    /\ call'[p].todo # call[p].todo

\* C14: load_from_disk puts in memory exactly the persisted entries that are
\* not expired (now < expires_at) and keeps their files, and deletes the file
\* of every persisted entry that is expired (expires_at <= now) without
\* putting it in memory.
C14_LoadsExactlyTheUnexpired ==
    [][\A p \in Procs :
          (/\ Loads(p)
           /\ Head(call[p].todo) \in DOMAIN files
           /\ files[Head(call[p].todo)] # <<>>)
          => LET k == Head(call[p].todo)
                 entry == files[k][1]
             IN  IF now < entry.expires_at
                 THEN /\ k \in DOMAIN cache'
                      /\ cache'[k] = entry
                      /\ k \in DOMAIN files'
                 ELSE /\ cache' = cache
                      /\ k \notin DOMAIN files']_vars

\* C15: once load_from_disk has finished, the recency list holds the loaded
\* entries in ascending order of created_at, so that the oldest is the first
\* to be evicted.
C15_LoadedOrderIsByCreation ==
    (_initialized /\ \A p \in Procs : pc[p] # "loading") =>
        \A i, j \in DOMAIN access_order :
            i < j => cache[access_order[i]].created_at
                       <= cache[access_order[j]].created_at

\* C16: a file that does not unpickle is deleted and skipped: the step that
\* reads it changes nothing in memory and leaves the rest of the listing to
\* be read; a loader that has skipped a file still loads every unexpired
\* entry it reads afterwards, and its load ends without an error.
C16_CorruptFileIsSkipped ==
    [][\A p \in Procs :
          /\ (Loads(p) /\ Head(call[p].todo) \in DOMAIN files) =>
                LET k == Head(call[p].todo)
                IN  IF files[k] = <<>>
                    THEN /\ k \notin DOMAIN files'
                         /\ cache' = cache
                         /\ access_order' = access_order
                         /\ current_size' = current_size
                         /\ pc'[p] = "loading"
                         /\ call'[p].todo = Tail(call[p].todo)
                    ELSE (call[p].skipped # {}
                            /\ now < files[k][1].expires_at) =>
                             /\ k \in DOMAIN cache'
                             /\ cache'[k] = files[k][1]
                             /\ call'[p].todo = Tail(call[p].todo)
          /\ (pc[p] = "loading" /\ pc'[p] # "loading") =>
                /\ pc'[p] = "returned"
                /\ res'[p] = [how |-> "initialized", data |-> None]]_vars

\* C16 witness: a load has ended without an error after deleting a file that
\* did not unpickle, and an entry listed after that file is in memory.
C16_Witness ==
    \E p \in Procs :
        /\ pc[p] = "returned"
        /\ res[p].how = "initialized"
        /\ "skipped" \in DOMAIN call[p]
        /\ \E i, j \in DOMAIN call[p].listing :
               /\ i < j
               /\ call[p].listing[i] \in call[p].skipped
               /\ call[p].listing[i] \notin DOMAIN files
               /\ call[p].listing[j] \in DOMAIN cache

\* C17: load_from_disk runs once: never two loads at a time, none once the
\* processor is marked initialized, and no key is put in the recency list
\* twice.
C17_LoadsOnce ==
    /\ Cardinality({p \in Procs : pc[p] = "loading"}) <= 1
    /\ _initialized => \A p \in Procs : pc[p] # "loading"
    /\ \A k \in Range(access_order) : Occurrences(access_order, k) = 1

\* The record raw, processed at time t, passes validate_measurements without
\* an exception and either fails it or scores invalid.
FailsQuality(raw, t) ==
    LET measurements == RawGet(raw, "measurements", <<>>)
        v == validate_measurements(measurements)
    IN  /\ v.raised = ""
        /\ \/ ~v.is_valid
           \/ calculate_quality_score(measurements,
                  RawGet(raw, "satellite_pass_time", t), t) = "invalid"

C19_MissingTimestampIsAnError ==
    [][\A p \in Procs :
          (/\ Lookup(p)
           /\ call'[p].op = "process"
           /\ "timestamp" \notin DOMAIN call'[p].raw)
          => /\ pc'[p] = "returned"
             /\ res'[p].how = "error"
             /\ cache' = cache
             /\ access_order' = access_order
             /\ current_size' = current_size
             /\ files' = files]_vars

\* C20: a call of process_satellite_data on a raw record that has a
\* 'timestamp' never ends with an error: whatever the measurement fields
\* are, the caller gets a ProcessedData with a quality category.
C20_TimestampedRecordNeverRaises ==
    \A p \in Procs :
        (/\ call[p].op = "process"
         /\ "timestamp" \in DOMAIN call[p].raw
         /\ pc[p] = "returned")
        => /\ res[p].how \in {"hit", "computed"}
           /\ res[p].data.data_quality
                 \in {"excellent", "good", "fair", "poor", "invalid"}

\* C22: the index computed from any surface estimates is an integer from 0
\* to 500.
C22_IndexFrom0To500 ==
    \A p \in Procs : pc[p] = "indexed" => res[p].aqi \in 0..500

\* An index of 500 has been returned for estimates whose PM2.5 sub-index is
\* beyond 500 before the clamp.
C22_Witness ==
    \E p \in Procs :
        /\ pc[p] = "indexed"
        /\ res[p].aqi = 500
        /\ Pm25SubIndex(call[p].surface_estimates.pm25) > 500 * 560

\* The place of a pollutant in PollutantNames.
PollutantIndex(name) == CHOOSE i \in 1..4 : PollutantNames[i] = name

\* C24: the index is the largest of the four sub-indices (as an integer),
\* and the sub-index of the dominant pollutant is that largest sub-index.
C24_DominantDrivesIndex ==
    \A p \in Procs :
        pc[p] = "indexed" =>
            LET subs == SubIndices(call[p].surface_estimates)
            IN  /\ res[p].aqi = Max4(subs) \div 560
                /\ subs[PollutantIndex(res[p].dominant_pollutant)] = Max4(subs)

\* C25: when several pollutants share the largest normalized value, the
\* dominant pollutant is the first of them in the order PM2.5, PM10, NO2, O3.
C25_TiesByPriority ==
    \A p \in Procs :
        pc[p] = "indexed" =>
            LET pollutants == Pollutants(call[p].surface_estimates)
                tied == {i \in 1..4 : pollutants[i] = Max4(pollutants)}
                priority == <<"PM2.5", "PM10", "NO2", "O3">>
                first == CHOOSE n \in 1..4 :
                            /\ PollutantIndex(priority[n]) \in tied
                            /\ \A m \in 1..(n - 1) :
                                  PollutantIndex(priority[m]) \notin tied
            IN  Cardinality(tied) > 1
                    => res[p].dominant_pollutant = priority[first]

\* C26: raising one of the four surface values, the other three held, never
\* lowers the index.
C26_IndexMonotone ==
    \A p \in Procs :
        pc[p] = "indexed" =>
            \A field \in {"no2", "o3", "pm25", "pm10"}, v \in IndexValues :
                v >= call[p].surface_estimates[field] =>
                    _calculate_air_quality(
                        [call[p].surface_estimates EXCEPT ![field] = v]).aqi
                      >= res[p].aqi

\* An index of 50 has been returned for PM2.5 at 35 ug/m3 with the other
\* three at zero; PM2.5 at 50 ug/m3 gives a larger index.
C26_Witness ==
    \E p \in Procs :
        /\ pc[p] = "indexed"
        /\ call[p].surface_estimates = [no2 |-> 0, o3 |-> 0, pm25 |-> 350, pm10 |-> 0]
        /\ res[p].aqi = 50
        /\ _calculate_air_quality(
               [call[p].surface_estimates EXCEPT !.pm25 = 500]).aqi > 50

\* C21: the computing path is deterministic: two runs on the same
\* measurements and pass time at the same clock (hence the same day/night
\* flag) return the same quality category, surface estimates and index.
C21_ComputeIsDeterministic ==
    \A p, q \in Procs :
        (pc[p] = "computed" /\ pc[q] = "computed" /\ call[p] = call[q])
            => /\ res[p].data_quality = res[q].data_quality
               /\ res[p].surface_estimates = res[q].surface_estimates
               /\ res[p].air_quality = res[q].air_quality

\* C23: every surface estimate is at least 0, for every record: also with
\* missing, zero or negative column values.
C23_EstimatesNotNegative ==
    \A p \in Procs :
        pc[p] = "computed" =>
            /\ res[p].surface_estimates.no2 >= 0
            /\ res[p].surface_estimates.o3 >= 0
            /\ res[p].surface_estimates.pm25 >= 0
            /\ res[p].surface_estimates.pm10 >= 0

\* The field a message of validate_measurements is about.
IssueField(issue) ==
    CASE issue = "High cloud cover" -> "cloud_fraction"
      [] issue = "High solar zenith angle" -> "solar_zenith_angle"
      [] issue = "Invalid NO2 column" -> "no2_column"
      [] issue = "Invalid O3 column" -> "o3_column"
      [] issue = "Invalid AOD" -> "aerosol_optical_depth"

\* The value v of field is outside the range quality_thresholds gives it.
OutsideRange(field, v) ==
    CASE field = "cloud_fraction" -> v > quality_thresholds.cloud_fraction
      [] field = "solar_zenith_angle" -> v > quality_thresholds.solar_zenith_angle
      [] field = "no2_column" ->
            ~(quality_thresholds.no2_column_min <= v
              /\ v <= quality_thresholds.no2_column_max)
      [] field = "o3_column" ->
            ~(quality_thresholds.o3_column_min <= v
              /\ v <= quality_thresholds.o3_column_max)
      [] field = "aerosol_optical_depth" ->
            ~(quality_thresholds.aod_min <= v /\ v <= quality_thresholds.aod_max)

\* C27: validation reports a violation only for a field that is present in
\* the record and outside its range, and a record with none of the fields
\* is valid and has no violations.
C27_ViolationsOnlyForPresentFields ==
    \A p \in Procs :
        pc[p] = "computed" =>
            LET measurements == call[p].measurements
            IN  /\ \A issue \in Range(res[p].issues) :
                      /\ IssueField(issue) \in DOMAIN measurements
                      /\ OutsideRange(IssueField(issue),
                                      measurements[IssueField(issue)])
                /\ DOMAIN measurements = {} =>
                      (res[p].is_valid /\ res[p].issues = <<>>)

\* The category of a score in units of 1e-4, by the thresholds 0.8, 0.6, 0.4
\* and 0.2.
CategoryOf(score) ==
    IF score >= 8000 THEN "excellent"
    ELSE IF score >= 6000 THEN "good"
    ELSE IF score >= 4000 THEN "fair"
    ELSE IF score >= 2000 THEN "poor"
    ELSE "invalid"

\* The pass of the record of caller p is at most an hour old.
Fresh(p) ==
    /\ now - call[p].satellite_pass_time >= 0
    /\ now - call[p].satellite_pass_time <= 3600

\* C28: the category is that of the weighted sum 0.3 * (1 - cloud)
\* + 0.2 * solar + 0.3 * completeness + 0.2 * freshness; in particular a
\* fresh record with cloud_fraction 0.1, solar_zenith_angle 30 and the core
\* column fields present is excellent or good.
C28_CategoryOfWeightedSum ==
    \A p \in Procs :
        pc[p] = "computed" =>
            /\ res[p].data_quality =
                  CategoryOf(QualityScore_weighted_sum(call[p].measurements,
                                 call[p].satellite_pass_time, now))
            /\ (call[p].measurements = CompleteMeasurements /\ Fresh(p))
                  => res[p].data_quality \in {"excellent", "good"}

\* C29: a record with cloud_fraction 0.95 whose other fields are all
\* there and in range, and whose pass is fresh, is poor or invalid.
C29_CloudyIsPoorOrWorse ==
    \A p \in Procs :
        (/\ pc[p] = "computed"
         /\ Fresh(p)
         /\ DOMAIN call[p].measurements = DOMAIN CompleteMeasurements
         /\ call[p].measurements.cloud_fraction = 95
         /\ \A field \in {"solar_zenith_angle", "no2_column", "o3_column",
                           "aerosol_optical_depth"} :
               ~OutsideRange(field, call[p].measurements[field]))
        => res[p].data_quality \in {"poor", "invalid"}

\* A fresh, complete record with cloud_fraction 0.95 and a low sun has been
\* scored.
C29_Witness ==
    \E p \in Procs :
        /\ pc[p] = "computed"
        /\ Fresh(p)
        /\ call[p].measurements =
              [CompleteMeasurements EXCEPT !.cloud_fraction = 95]
        /\ res[p].data_quality = "invalid"

\* C30: when the record holds a ground value of pm25, pm10, no2 or o3, the
\* surface estimate of that pollutant is the ground value.
C30_GroundValueOverrides ==
    \A p \in Procs :
        pc[p] = "computed" =>
            \A g \in {"pm25", "pm10", "no2", "o3"} \cap DOMAIN call[p].measurements :
                res[p].surface_estimates[g] = call[p].measurements[g]

\* The step in which a lookup by caller p is a hit.
Hits(p) ==
    /\ Lookup(p)
    /\ pc'[p] \in {"returned", "got"}
    /\ res'[p].how = "hit"

\* The keys of the sequence seq other than k, in their order.
Others(seq, k) == SelectSeq(seq, LAMBDA x : x # k)

\* C31: a hit adds exactly 1 to the access_count of the entry, sets its
\* last_accessed to now and moves its key to the most-recently-used end of
\* access_order; the data, created_at, expires_at and size of the entry,
\* every other entry, the order of the other keys and current_size stay as
\* they were.
C31_HitTouchesOnlyRecency ==
    [][\A p \in Procs :
          Hits(p) =>
              LET k == call'[p].cache_key
              IN  /\ DOMAIN cache' = DOMAIN cache
                  /\ cache'[k] = [cache[k] EXCEPT
                                     !.access_count = cache[k].access_count + 1,
                                     !.last_accessed = now]
                  /\ \A j \in DOMAIN cache \ {k} : cache'[j] = cache[j]
                  /\ access_order' = Append(Others(access_order, k), k)
                  /\ current_size' = current_size]_vars

\* A hit has been returned for the older of two entries, which is now at the
\* most-recently-used end of the list, ahead of an entry created after it.
C31_Witness ==
    \E p \in Procs :
        /\ pc[p] \in {"returned", "got"}
        /\ res[p].how = "hit"
        /\ Len(access_order) = 2
        /\ access_order[2] = call[p].cache_key
        /\ access_order[1] \in DOMAIN cache
        /\ call[p].cache_key \in DOMAIN cache
        /\ cache[access_order[1]].created_at > cache[call[p].cache_key].created_at
        /\ cache[call[p].cache_key].access_count = 2

\* C32: at every point where another caller can run, access_order holds
\* exactly the keys of the in-memory map, each of them once.
C32_OrderMatchesMap ==
    /\ Range(access_order) = DOMAIN cache
    /\ Len(access_order) = Cardinality(DOMAIN cache)

\* C34: current_size is the sum of file_size_bytes over the entries of the
\* in-memory map.
C34_SizeIsSumOfEntries ==
    current_size = SumOfSizes(cache, DOMAIN cache)

\* C33: when the eviction pass of a put removes entries, it does not remove
\* an entry that has not expired while it leaves in the cache an entry whose
\* expires_at has passed.
C33_EvictionRemovesExpiredFirst ==
    [][\A p \in Procs :
          Puts(p) =>
              \A r \in DOMAIN call'[p].evicted :
                  \A j \in DOMAIN cache' \ {call'[p].cache_key} :
                      (j \in DOMAIN cache /\ IsExpired(now, cache[j]))
                          => IsExpired(now, cache[r])]_vars

\* C35: within one call of process_satellite_data the key of the lookup, the
\* cache_key of the record and the key the record is stored under are one
\* key, and it is the key of the record's own city, coordinates and
\* timestamp; for every raw record, with or without a 'timestamp'.
C35_OneKeyPerCall ==
    [][\A p \in Procs :
          Puts(p) =>
              LET data == call'[p].data
              IN  /\ data.cache_key = call'[p].cache_key
                  /\ call'[p].cache_key \in DOMAIN cache'
                  /\ cache'[call'[p].cache_key].data = data
                  /\ data.cache_key =
                         _generate_cache_key(data.city, data.coordinates[1],
                             data.coordinates[2], data.timestamp)]_vars

\* C36: the eviction pass of a put never removes the entry that put inserts,
\* also when that entry alone is larger than the budget; and when the put
\* has completed, a get for its key, with no put or clear in between and the
\* TTL not elapsed, returns the value that was put.
C36_PutThenGet ==
    [][\A p \in Procs :
          /\ Puts(p) =>
                /\ call'[p].cache_key \in DOMAIN cache'
                /\ cache'[call'[p].cache_key].data = call'[p].data
          /\ (/\ pc'[p] = "returned"
              /\ res'[p].how = "computed"
              /\ ~cleared'
              /\ ~IsExpired(now', call'[p].entry))
                 => get(Self', call'[p].cache_key, now').value = call'[p].data]_vars

\* A put of an entry larger than the whole budget has completed, a second
\* has passed, and a get for its key returns the value.
C36_Witness ==
    \E p \in Procs :
        /\ pc[p] = "returned"
        /\ res[p].how = "computed"
        /\ call[p].entry.file_size_bytes > max_size_bytes
        /\ now > call[p].entry.created_at
        /\ ~IsExpired(now, call[p].entry)
        /\ get(Self, call[p].cache_key, now).value = call[p].data
        /\ res[p].data = call[p].data

\* C37: under fair scheduling and terminating disk operations every call of
\* process_satellite_data that has started completes, with a result or with
\* an error, and processing_lock is free whenever no call is inside the
\* locked block: an exception of the pipeline or of the disk write does not
\* leave it held.
C37_CallsCompleteAndLockIsFreed ==
    /\ \A p \in Procs :
           (pc[p] \in {"waiting", "open", "write"}) ~> (pc[p] = "returned")
    /\ []((\A p \in Procs : pc[p] \notin {"open", "write"}) => ~locked)

\* A caller that waited for the lock behind a call whose pipeline could not
\* raise has been handed it, its own pipeline raised, and the lock is free.
C37_Witness ==
    \E p \in Procs, q \in Procs :
        /\ p # q
        /\ pc[p] = "returned"
        /\ res[p].how = "error"
        /\ pc[q] = "returned"
        /\ res[q].how = "computed"
        /\ ~locked
        /\ waiters = <<>>

\* get_processed_data, lines 492-512: the response built from the record
\* process_satellite_data returned.  processing_time_ms is left out.
get_processed_data(processed_data) ==
    [city |-> processed_data.city,
     coordinates |-> [latitude |-> processed_data.coordinates[1],
                      longitude |-> processed_data.coordinates[2]],
     source |-> "NASA TEMPO Satellite (Real-time Processed)",
     timestamp |-> IsoFormat(processed_data.timestamp),
     satellite_pass_time |-> IsoFormat(processed_data.satellite_pass_time),
     measurements |-> processed_data.measurements,
     surface_estimates |-> processed_data.surface_estimates,
     air_quality |-> processed_data.air_quality,
     quality_flags |-> processed_data.quality_flags,
     metadata |-> processed_data.metadata,
     data_quality |-> processed_data.data_quality,
     cache_info |-> [cached |-> TRUE,
                     cache_key |-> processed_data.cache_key]]

\* C38: the cache_info.cached flag of the response of get_processed_data is
\* true when the record was served from the cache and false when this call
\* computed it.
C38_CachedFlagTellsTheSource ==
    \A p \in Procs :
        (pc[p] = "returned" /\ res[p].how \in {"hit", "computed"}) =>
            (get_processed_data(res[p].data).cache_info.cached
                 <=> res[p].how = "hit")

\* C39: a batch request that lists more than 20 cities is answered with
\* status 400 and no city of it is processed.
C39_OversizedBatchIs400 ==
    \A p \in Procs :
        (/\ pc[p] = "returned"
         /\ call[p].op = "batch"
         /\ Len(call[p].city_list) > MaxBatchCities)
            => /\ res[p].status_code = 400
               /\ call[p].started = 0

====
